---------------------------- MODULE Spec2Model ----------------------------
(***************************************************************************)
(* A model of the CSV -> CFONB120 converters of this repository:           *)
(*   src/csv_to_cfonb120final.py  (Decimal amounts, sign overpunch)        *)
(*   src/csv_to_cfonb120.py       (process-wide internal-code counter)     *)
(*                                                                         *)
(* Text is a sequence of one-character strings.  A decimal.Decimal is a    *)
(* record [neg, dig, exp]: sign, coefficient digits (most significant      *)
(* first, no leading zero except the single digit 0) and exponent, with    *)
(* the arithmetic of Python's default context (28 significant digits,      *)
(* ROUND_HALF_EVEN).                                                       *)
(***************************************************************************)
EXTENDS Integers, Sequences, FiniteSets, TLC

(***************************************************************************)
(* Text helpers (Python str methods used by the source)                    *)
(***************************************************************************)

\* s * n for a one-character s
Rep(c, n) == [i \in 1..n |-> c]

Min(a, b) == IF a <= b THEN a ELSE b

Max(a, b) == IF a >= b THEN a ELSE b

\* value[:n]
Take(s, n) == SubSeq(s, 1, Min(n, Len(s)))

\* value[n:]
Drop(s, n) == SubSeq(s, Min(n, Len(s)) + 1, Len(s))

\* str.rjust(width, fill): a string already that long is returned as it is
rjust(s, width, fill) == IF Len(s) >= width THEN s ELSE Rep(fill, width - Len(s)) \o s

\* str.ljust(width, fill)
ljust(s, width, fill) == IF Len(s) >= width THEN s ELSE s \o Rep(fill, width - Len(s))

DigitChars == <<"0", "1", "2", "3", "4", "5", "6", "7", "8", "9">>

IsDigitChar(c) == \E d \in 1..10 : DigitChars[d] = c

CharOf(d) == DigitChars[d + 1]

ValOf(c) == CHOOSE d \in 0..9 : DigitChars[d + 1] = c

\* U+00A0, the no-break space, written as one ASCII character
NBSP == "~"

\* U+20AC, a character latin1 cannot encode, written as one ASCII character
EURO == "^"

\* str.isspace() for the characters of the model: the space and the no-break space
IsSpace(c) == c \in {" ", NBSP}

\* the places of the characters of s that are not whitespace
Inked(s) == {i \in 1..Len(s) : ~IsSpace(s[i])}

\* str.lstrip()
LStrip(s) ==
  IF Inked(s) = {} THEN <<>>
  ELSE SubSeq(s, CHOOSE i \in Inked(s) : \A j \in Inked(s) : i <= j, Len(s))

\* str.rstrip()
RStrip(s) ==
  IF Inked(s) = {} THEN <<>>
  ELSE SubSeq(s, 1, CHOOSE i \in Inked(s) : \A j \in Inked(s) : i >= j)

\* str.strip()
Strip(s) == RStrip(LStrip(s))

\* s.replace(c, "")
RECURSIVE Remove(_, _)
Remove(s, c) ==
  IF s = <<>> THEN <<>>
  ELSE IF Head(s) = c THEN Remove(Tail(s), c) ELSE <<Head(s)>> \o Remove(Tail(s), c)

\* s.replace(c, d) for one-character c and d
Replace(s, c, d) == [i \in 1..Len(s) |-> IF s[i] = c THEN d ELSE s[i]]

(***************************************************************************)
(* decimal.Decimal under the default context                               *)
(***************************************************************************)

\* decimal.getcontext().prec, the default the source never changes
DecimalPrec == 28

RECURSIVE StripZeros(_)
StripZeros(d) == IF Len(d) > 1 /\ Head(d) = 0 THEN StripZeros(Tail(d)) ELSE d

Dec(neg, dig, exp) == [neg |-> neg, dig |-> StripZeros(dig), exp |-> exp]

DecIsZero(x) == x.dig = <<0>>

\* Decimal("0.00")
DecZero2 == [neg |-> FALSE, dig |-> <<0>>, exp |-> -2]

\* the int 0 that sum() starts from, as a Decimal
DecInt0 == [neg |-> FALSE, dig |-> <<0>>, exp |-> 0]

\* amount >= 0 (a negative zero compares equal to zero)
DecGeZero(x) == ~x.neg \/ DecIsZero(x)

\* abs(amount)
DecAbs(x) == [x EXCEPT !.neg = FALSE]

DecNeg(x) == [x EXCEPT !.neg = ~x.neg]

\* digit-wise a + b + c for equally long a, b: the digits 1..i, with the carry out in front
RECURSIVE AddCarry(_, _, _, _)
AddCarry(a, b, i, c) ==
  IF i = 0 THEN (IF c = 0 THEN <<>> ELSE <<c>>)
  ELSE LET s == a[i] + b[i] + c
       IN Append(AddCarry(a, b, i - 1, s \div 10), s % 10)

\* digit-wise a - b - c for equally long a >= b
RECURSIVE SubBorrow(_, _, _, _)
SubBorrow(a, b, i, c) ==
  IF i = 0 THEN <<>>
  ELSE LET s == a[i] - b[i] - c
       IN Append(SubBorrow(a, b, i - 1, IF s < 0 THEN 1 ELSE 0), IF s < 0 THEN s + 10 ELSE s)

\* a >= b for equally long digit strings
RECURSIVE DigitsGe(_, _)
DigitsGe(a, b) ==
  IF a = <<>> THEN TRUE
  ELSE IF Head(a) # Head(b) THEN Head(a) > Head(b)
  ELSE DigitsGe(Tail(a), Tail(b))

\* the exact sum of two Decimals, at the smaller exponent
DecAddExact(x, y) ==
  LET e == Min(x.exp, y.exp)
      a0 == x.dig \o Rep(0, x.exp - e)
      b0 == y.dig \o Rep(0, y.exp - e)
      n == Max(Len(a0), Len(b0))
      a == Rep(0, n - Len(a0)) \o a0
      b == Rep(0, n - Len(b0)) \o b0
  IN IF x.neg = y.neg THEN Dec(x.neg, AddCarry(a, b, n, 0), e)
     ELSE IF a = b THEN Dec(FALSE, <<0>>, e)
     ELSE IF DigitsGe(a, b) THEN Dec(x.neg, SubBorrow(a, b, n, 0), e)
     ELSE Dec(y.neg, SubBorrow(b, a, n, 0), e)

\* ROUND_HALF_EVEN: whether dropping the digits rest after keep rounds keep up
RoundsUpHalfEven(keep, rest) ==
  /\ rest # <<>>
  /\ \/ Head(rest) > 5
     \/ /\ Head(rest) = 5
        /\ \/ \E i \in 2..Len(rest) : rest[i] # 0
           \/ keep[Len(keep)] % 2 = 1

\* keep + 1 when up, as a digit string (one digit longer on a carry out of 99..9)
Bump(keep, up) ==
  IF up THEN AddCarry(keep, Rep(0, Len(keep) - 1) \o <<1>>, Len(keep), 0) ELSE keep

\* the context's rounding of a result to prec significant digits
DecRound(x, prec) ==
  IF Len(x.dig) <= prec THEN x
  ELSE LET keep == SubSeq(x.dig, 1, prec)
           rest == SubSeq(x.dig, prec + 1, Len(x.dig))
           r == Bump(keep, RoundsUpHalfEven(keep, rest))
           cut == Len(x.dig) - prec
       IN IF Len(r) > prec
          THEN [neg |-> x.neg, dig |-> SubSeq(r, 1, prec), exp |-> x.exp + cut + 1]
          ELSE [neg |-> x.neg, dig |-> r, exp |-> x.exp + cut]

\* x + y
DecAdd(x, y) == DecRound(DecAddExact(x, y), DecimalPrec)

\* x - y
DecSub(x, y) == DecAdd(x, DecNeg(y))

\* x * (10 ** k)
DecMulPow10(x, k) ==
  DecRound([neg |-> x.neg,
            dig |-> IF DecIsZero(x) THEN <<0>> ELSE x.dig \o Rep(0, k),
            exp |-> x.exp], DecimalPrec)

\* x.quantize(Decimal("1")): exponent 0 under ROUND_HALF_EVEN; InvalidOperation when
\* the result would have more than prec digits
DecQuantize1(x) ==
  LET d == IF x.exp >= 0
           THEN (IF DecIsZero(x) THEN <<0>> ELSE x.dig \o Rep(0, x.exp))
           ELSE LET k == -x.exp
                    full == Rep(0, Max(0, k + 1 - Len(x.dig))) \o x.dig
                    keep == SubSeq(full, 1, Len(full) - k)
                    rest == SubSeq(full, Len(full) - k + 1, Len(full))
                IN StripZeros(Bump(keep, RoundsUpHalfEven(keep, rest)))
  IN IF Len(d) > DecimalPrec
     THEN [err |-> "InvalidOperation", val |-> DecInt0]
     ELSE [err |-> "", val |-> [neg |-> x.neg, dig |-> d, exp |-> 0]]

\* f"{int(scaled):d}"
IntDigits(dig) == [i \in 1..Len(dig) |-> CharOf(dig[i])]

(***************************************************************************)
(* cfonb_encode_amount                                                     *)
(***************************************************************************)

CFONB_WIDTH == 120

AMOUNT_WIDTH == 14

\* the default of the parameter decimals
DECIMALS == 2

CREDIT_MAP ==
  ("0" :> "{") @@ ("1" :> "A") @@ ("2" :> "B") @@ ("3" :> "C") @@ ("4" :> "D") @@
  ("5" :> "E") @@ ("6" :> "F") @@ ("7" :> "G") @@ ("8" :> "H") @@ ("9" :> "I")

\* a debit table whose entry for 1 is the credit table's
DEBIT_MAP_Collide ==
  ("0" :> "}") @@ ("1" :> "A") @@ ("2" :> "K") @@ ("3" :> "L") @@ ("4" :> "M") @@
  ("5" :> "N") @@ ("6" :> "O") @@ ("7" :> "P") @@ ("8" :> "Q") @@ ("9" :> "R")

DEBIT_MAP ==
  ("0" :> "}") @@ ("1" :> "J") @@ ("2" :> "K") @@ ("3" :> "L") @@ ("4" :> "M") @@
  ("5" :> "N") @@ ("6" :> "O") @@ ("7" :> "P") @@ ("8" :> "Q") @@ ("9" :> "R")

\* scaled = (abs(amount) * 10 ** decimals).quantize(Decimal("1"))
Scaled(amount, decimals) == DecQuantize1(DecMulPow10(DecAbs(amount), decimals))

\* cfonb_encode_amount without its check of len(digits) against width
cfonb_encode_amount_NoCheck(amount, decimals, width) ==
  LET sign == IF DecGeZero(amount) THEN 1 ELSE -1
      scaled == Scaled(amount, decimals)
      digits == IntDigits(scaled.val.dig)
      padded == rjust(digits, width, "0")
      last_digit == padded[Len(padded)]
      encoded_last == IF sign >= 0 THEN CREDIT_MAP[last_digit] ELSE DEBIT_MAP[last_digit]
  IN IF scaled.err # "" THEN [err |-> scaled.err, val |-> <<>>]
     ELSE [err |-> "", val |-> Append(SubSeq(padded, 1, Len(padded) - 1), encoded_last)]

cfonb_encode_amount(amount, decimals, width) ==
  LET sign == IF DecGeZero(amount) THEN 1 ELSE -1
      scaled == Scaled(amount, decimals)
      digits == IntDigits(scaled.val.dig)
      padded == rjust(digits, width, "0")
      last_digit == padded[Len(padded)]
      encoded_last == IF sign >= 0 THEN CREDIT_MAP[last_digit] ELSE DEBIT_MAP[last_digit]
  IN IF scaled.err # "" THEN [err |-> scaled.err, val |-> <<>>]
     ELSE IF Len(digits) > width THEN [err |-> "AmountTooLarge", val |-> <<>>]
     ELSE [err |-> "", val |-> Append(SubSeq(padded, 1, Len(padded) - 1), encoded_last)]


(***************************************************************************)
(* build_line                                                              *)
(***************************************************************************)

\* put without value = value[:width]
put_NoCut(line, start, end, value, align) ==
  LET width == end - start
      just == IF align = "right" THEN rjust(value, width, " ") ELSE ljust(value, width, " ")
  IN SubSeq(line, 1, start) \o just \o SubSeq(line, end + 1, Len(line))

\* put(start, end, value, align): line[start:end] = list(value), value cut and
\* justified to end - start
put(line, start, end, value, align) ==
  LET width == end - start
      cut == Take(value, width)
      just == IF align = "right" THEN rjust(cut, width, " ") ELSE ljust(cut, width, " ")
  IN SubSeq(line, 1, start) \o just \o SubSeq(line, end + 1, Len(line))

build_line(rec_type, bank_code, branch_code, account_number, date_ddmmyy, amount_str, name, ref, comp_type, comp_info) ==
  LET l0 == Rep(" ", CFONB_WIDTH)
      l1 == put(l0, 0, 2, rec_type, "left")
      l2 == put(l1, 2, 7, bank_code, "left")
      l3 == put(l2, 11, 16, branch_code, "left")
      l4 == put(l3, 16, 19, <<"E", "U", "R">>, "left")
      l5 == put(l4, 19, 20, <<"2">>, "left")
      l6 == put(l5, 21, 32, account_number, "left")
      l7 == put(l6, 34, 40, date_ddmmyy, "left")
      l8 == IF rec_type = <<"0", "5">>
            THEN put(put(l7, 45, 48, comp_type, "left"), 48, 118, comp_info, "left")
            ELSE put(put(l7, 48, 79, name, "left"), 81, 88, ref, "left")
  IN IF amount_str # <<>> THEN put(l8, 90, 104, amount_str, "right") ELSE l8

\* line[a:b] of an emitted line
Field(line, a, b) == SubSeq(line, a + 1, b)

(***************************************************************************)
(* sanitize_label                                                          *)
(***************************************************************************)

LowerChars == <<"a", "b", "c", "d", "e", "f", "g", "h", "i", "j", "k", "l", "m",
                "n", "o", "p", "q", "r", "s", "t", "u", "v", "w", "x", "y", "z">>

UpperChars == <<"A", "B", "C", "D", "E", "F", "G", "H", "I", "J", "K", "L", "M",
                "N", "O", "P", "Q", "R", "S", "T", "U", "V", "W", "X", "Y", "Z">>

\* str.upper() on one character
Upper(c) ==
  IF \E i \in 1..26 : LowerChars[i] = c
  THEN UpperChars[CHOOSE i \in 1..26 : LowerChars[i] = c]
  ELSE c

\* " ".join(s[lo..hi].split()) inside an already stripped s: every run of whitespace
\* becomes one space (a whitespace character that follows whitespace is dropped)
RECURSIVE CollapseRange(_, _, _)
CollapseRange(s, lo, hi) ==
  IF lo > hi THEN <<>>
  ELSE IF lo = hi
  THEN (IF ~IsSpace(s[lo]) THEN <<s[lo]>>
        ELSE IF lo > 1 /\ ~IsSpace(s[lo - 1]) THEN <<" ">> ELSE <<>>)
  ELSE LET mid == (lo + hi) \div 2
       IN CollapseRange(s, lo, mid) \o CollapseRange(s, mid + 1, hi)

Collapse(s) == CollapseRange(s, 1, Len(s))

\* .encode("latin1", "replace").decode("latin1") on one character
Latin1(c) == IF c = EURO THEN "?" ELSE c

sanitize_label(label) ==
  LET joined == Collapse(Strip(label))
  IN [i \in 1..Len(joined) |-> Latin1(Upper(joined[i]))]

(***************************************************************************)
(* parse_amount, DATE_RE, dates                                            *)
(***************************************************************************)

\* the value None of an optional Decimal
NoneDec == [neg |-> FALSE, dig |-> <<>>, exp |-> 0]

IsNone(x) == x.dig = <<>>

\* Decimal(s) for s over digits, sign, point and other characters: an optional sign,
\* then digits with at most one point and at least one digit
ParseDecimal(s) ==
  LET signed == s # <<>> /\ s[1] \in {"+", "-"}
      body == IF signed THEN Tail(s) ELSE s
      dots == {i \in 1..Len(body) : body[i] = "."}
      ok == /\ Cardinality(dots) <= 1
            /\ \A i \in 1..Len(body) : body[i] = "." \/ IsDigitChar(body[i])
            /\ \E i \in 1..Len(body) : IsDigitChar(body[i])
      frac == IF dots = {} THEN 0 ELSE Len(body) - (CHOOSE i \in dots : TRUE)
      ds == Remove(body, ".")
  IN IF ~ok THEN [err |-> "InvalidAmount", val |-> NoneDec]
     ELSE [err |-> "",
           val |-> Dec(signed /\ s[1] = "-", [i \in 1..Len(ds) |-> ValOf(ds[i])], -frac)]

parse_amount(raw) ==
  LET s == Strip(raw)
      t == Replace(Remove(Remove(s, " "), NBSP), ",", ".")
  IN IF s = <<>> THEN [err |-> "", val |-> NoneDec] ELSE ParseDecimal(t)

\* DATE_RE.match(cell.strip())
DATE_RE(cell) ==
  LET s == Strip(cell)
  IN /\ Len(s) = 10
     /\ \A i \in {1, 2, 4, 5, 7, 8, 9, 10} : IsDigitChar(s[i])
     /\ s[3] = "/" /\ s[6] = "/"

DaysIn(m, y) ==
  IF m \in {4, 6, 9, 11} THEN 30
  ELSE IF m # 2 THEN 31
  ELSE IF y % 4 = 0 /\ (y % 100 # 0 \/ y % 400 = 0) THEN 29 ELSE 28

\* datetime.strptime(date_str, "%d/%m/%Y").date()
strptime(cell) ==
  LET s == Strip(cell)
      d == 10 * ValOf(s[1]) + ValOf(s[2])
      m == 10 * ValOf(s[4]) + ValOf(s[5])
      y == 1000 * ValOf(s[7]) + 100 * ValOf(s[8]) + 10 * ValOf(s[9]) + ValOf(s[10])
  IN IF y >= 1 /\ m \in 1..12 /\ d >= 1 /\ d <= DaysIn(m, y)
     THEN [err |-> "", val |-> [y |-> y, m |-> m, d |-> d]]
     ELSE [err |-> "InvalidDate", val |-> [y |-> 0, m |-> 0, d |-> 0]]

\* date.strftime("%d%m%y")
strftime(date) ==
  <<CharOf(date.d \div 10), CharOf(date.d % 10), CharOf(date.m \div 10), CharOf(date.m % 10),
    CharOf((date.y % 100) \div 10), CharOf(date.y % 10)>>

\* a.date < b.date
DateLt(a, b) ==
  \/ a.y < b.y
  \/ a.y = b.y /\ a.m < b.m
  \/ a.y = b.y /\ a.m = b.m /\ a.d < b.d


(***************************************************************************)
(* parse_iban_fr and the account of a run                                  *)
(***************************************************************************)

\* the default of --iban, upper-cased and with its spaces removed
DefaultIban ==
  <<"F", "R", "7", "6", "3", "0", "0", "0", "4", "0", "2", "2", "3", "1", "0", "0", "0",
    "1", "0", "1", "7", "3", "5", "5", "4", "5", "4">>

parse_iban_fr(iban) ==
  LET bban == Drop(iban, 4)
      bank_code == SubSeq(bban, 1, 5)
      branch_code == SubSeq(bban, 6, 10)
      account_number == SubSeq(bban, 11, 21)
      account_key == SubSeq(bban, 22, 23)
      numeric(f) == \A i \in 1..Len(f) : IsDigitChar(f[i])
  IN IF Take(iban, 2) # <<"F", "R">> \/ Len(iban) < 27 THEN [err |-> "MalformedIban"]
     ELSE IF ~(numeric(bank_code) /\ numeric(branch_code) /\ numeric(account_number)
               /\ numeric(account_key))
     THEN [err |-> "MalformedIban"]
     ELSE [err |-> "", bank_code |-> bank_code, branch_code |-> branch_code,
           account_number |-> account_number]

Account == parse_iban_fr(DefaultIban)

(***************************************************************************)
(* The statement: sort, balances, records                                  *)
(***************************************************************************)

\* f"{n:d}" for n >= 0
RECURSIVE NatDigits(_)
NatDigits(n) == IF n < 10 THEN <<CharOf(n)>> ELSE Append(NatDigits(n \div 10), CharOf(n % 10))

\* a sort that puts x before the elements of its own date
RECURSIVE InsertByDate_BeforeEqual(_, _)
InsertByDate_BeforeEqual(s, x) ==
  IF s = <<>> THEN <<x>>
  ELSE IF ~DateLt(s[Len(s)].date, x.date)
  THEN Append(InsertByDate_BeforeEqual(SubSeq(s, 1, Len(s) - 1), x), s[Len(s)])
  ELSE Append(s, x)

\* the place list.sort gives x in an already sorted s: after every element that is not later
RECURSIVE InsertByDate(_, _)
InsertByDate(s, x) ==
  IF s = <<>> THEN <<x>>
  ELSE IF DateLt(x.date, s[Len(s)].date)
  THEN Append(InsertByDate(SubSeq(s, 1, Len(s) - 1), x), s[Len(s)])
  ELSE Append(s, x)

\* transactions.sort(key=lambda t: t["date"]): stable
RECURSIVE SortByDate(_)
SortByDate(s) ==
  IF s = <<>> THEN <<>>
  ELSE InsertByDate(SortByDate(SubSeq(s, 1, Len(s) - 1)), s[Len(s)])

\* sum(t["amount"] for t in transactions), from the int 0, left to right
RECURSIVE SumAmounts(_)
SumAmounts(s) ==
  IF s = <<>> THEN DecInt0
  ELSE DecAdd(SumAmounts(SubSeq(s, 1, Len(s) - 1)), s[Len(s)].amount)

\* start_balance and end_balance of main for an opening balance that is not None
Balances(mode, opening, total) ==
  IF mode = "opening"
  THEN [start |-> opening, end |-> DecAdd(opening, total)]
  ELSE [start |-> DecSub(opening, total), end |-> opening]

\* the inline capacity of a 04 record's label, label[:31]
NAME_WIDTH == 31

\* the capacity of the 05 record main emits, label[31:31 + 70]
COMP_WIDTH == 70

\* the 01 or 07 record of main
BalanceLine(rec_type, date, balance) ==
  LET enc == cfonb_encode_amount(balance, DECIMALS, AMOUNT_WIDTH)
  IN IF enc.err # "" THEN [err |-> enc.err, lines |-> <<>>]
     ELSE [err |-> "",
           lines |-> <<build_line(rec_type, Account.bank_code, Account.branch_code,
                                  Account.account_number, strftime(date), enc.val,
                                  <<>>, <<>>, <<>>, <<>>)>>]

\* one pass of main's loop over the transactions: the 04 record, and a 05 record when
\* the label is longer than the inline capacity
TxLines(tx, seq) ==
  LET ref == rjust(NatDigits(seq), 7, "0")
      label == tx.label
      name == Take(label, NAME_WIDTH)
      enc == cfonb_encode_amount(tx.amount, DECIMALS, AMOUNT_WIDTH)
      l04 == build_line(<<"0", "4">>, Account.bank_code, Account.branch_code,
                        Account.account_number, strftime(tx.date), enc.val,
                        name, ref, <<>>, <<>>)
      comp == Take(Drop(label, NAME_WIDTH), COMP_WIDTH)
      l05 == build_line(<<"0", "5">>, Account.bank_code, Account.branch_code,
                        Account.account_number, strftime(tx.date), <<>>,
                        <<>>, <<>>, <<"L", "I", "B">>, comp)
  IN IF enc.err # "" THEN [err |-> enc.err, lines |-> <<>>]
     ELSE [err |-> "", lines |-> IF Len(label) > NAME_WIDTH THEN <<l04, l05>> ELSE <<l04>>]


(***************************************************************************)
(* Inputs: the rows csv.reader yields                                      *)
(***************************************************************************)

\* the longest input file, in rows
MaxRows == 3

\* the length of the longest label of the inputs: past the 31 + 70 characters of a
\* 04 record and one 05 record
LongLabelLen == 102

\* a label of n characters without whitespace
LongLabel(n) == [i \in 1..n |-> CharOf(i % 10)]

\* a credit, its label with a run of whitespace, lower case and a character outside latin1
RowCoffee ==
  <<<<"0", "2", "/", "0", "1", "/", "2", "0", "2", "4">>,
    <<>>,
    <<"R", "e", "f", "1">>,
    <<"C", "o", "f", "f", "e", "e", "~", " ", "s", "h", "o", "p", " ", "^", "5">>,
    <<"1", "2", ",", "5", "0">>>>

\* a debit whose label is longer than the inline capacity
RowRent ==
  <<<<"0", "1", "/", "0", "1", "/", "2", "0", "2", "4">>,
    <<>>,
    <<"R", "e", "f", "2">>,
    <<"R", "e", "n", "t", " ", "P", "a", "y", "m", "e", "n", "t", " ", "w", "i", "t", "h", " ", "a", " ", "v", "e", "r", "y", " ", "l", "o", "n", "g", " ", "d", "e", "s", "c", "r", "i", "p", "t", "i", "o", "n">>,
    <<"-", "9", "5", "0", ",", "0", "0">>>>

\* a credit of 1E-17 on the date of RowRent
RowFee ==
  <<<<"0", "1", "/", "0", "1", "/", "2", "0", "2", "4">>,
    <<>>,
    <<"R", "e", "f", "4">>,
    <<"F", "e", "e">>,
    <<"0", ",", "0", "0", "0", "0", "0", "0", "0", "0", "0", "0", "0", "0", "0", "0", "0", "0", "1">>>>

\* a dated row whose amount cell is only whitespace
RowBlank ==
  <<<<"0", "2", "/", "0", "1", "/", "2", "0", "2", "4">>,
    <<>>,
    <<"R", "e", "f", "5">>,
    <<"C", "a", "r", "d">>,
    <<" ">>>>

\* a dated row whose amount cell is not a decimal number
RowJunk ==
  <<<<"0", "1", "/", "0", "1", "/", "2", "0", "2", "4">>,
    <<>>,
    <<"R", "e", "f", "6">>,
    <<"B", "a", "d">>,
    <<"1", "2", "x">>>>

\* an account-summary row: no date in column 0, a date in column 3, the balance in column 5
RowSummary ==
  <<<<"C", "o", "m", "p", "t", "e">>,
    <<"C", "o", "m", "p", "t", "e">>,
    <<"7", "2", "3", "0">>,
    <<"1", "2", "/", "1", "2", "/", "2", "0", "2", "5">>,
    <<>>,
    <<"1", " ", "8", "2", "4", ",", "5", "4">>>>

\* an account-summary row whose balance cell is not a decimal number
RowSummaryJunk ==
  <<<<"C", "o", "m", "p", "t", "e">>,
    <<"C", "o", "m", "p", "t", "e">>,
    <<"7", "2", "3", "0">>,
    <<"1", "2", "/", "1", "2", "/", "2", "0", "2", "5">>,
    <<>>,
    <<"a", "b", "c">>>>

\* the earliest row, the largest amount and the longest label
RowBig ==
  <<<<"3", "1", "/", "1", "2", "/", "2", "0", "2", "3">>,
    <<>>,
    <<>>,
    LongLabel(LongLabelLen),
    <<"9", "9", "9", "9", "9", "9", "9", "9", "9", "9", "9", "9">>>>

RowMenu ==
  {RowCoffee, RowRent, RowFee, RowBlank, RowJunk, RowSummary, RowSummaryJunk, RowBig}

CsvInputs == UNION {[1..n -> RowMenu] : n \in 0..MaxRows}

(***************************************************************************)
(* State                                                                   *)
(***************************************************************************)

VARIABLES
  csv,              \* the rows of input_csv
  balance_mode,     \* args.balance_mode
  pc,               \* where main is
  rowIdx,           \* the row the reader yields next
  started,
  opening_balance,
  transactions,
  start_date,
  end_date,
  total,
  start_balance,
  end_balance,
  lines,
  seq,
  error,            \* the exception that ended the run, "" when none
  output,           \* the lines written to output_cfo
  e_pc,             \* a call of cfonb_encode_amount and one pass of main's loop on its own
  e_tx,             \* the transaction given
  e_enc,            \* what cfonb_encode_amount returned or raised
  e_out,            \* what the pass over the transaction emitted or raised
  l_pc,             \* a call of build_line on its own
  l_args,           \* its arguments
  l_line,           \* its result
  internal_seq,     \* csv_to_cfonb120.py: the global _internal_seq
  c_pc,             \* csv_to_cfonb120.py: where convert is
  c_calls,          \* the calls of convert made so far in this process
  c_txs,            \* the transactions read_csv_transactions returned to this call
  c_i,              \* the transaction the loop of convert is at
  c_lines           \* the records this call has built

mainVars ==
  <<csv, balance_mode, pc, rowIdx, started, opening_balance, transactions, start_date,
    end_date, total, start_balance, end_balance, lines, seq, error, output>>

encVars == <<e_pc, e_tx, e_enc, e_out>>

lineVars == <<l_pc, l_args, l_line>>

convVars == <<internal_seq, c_pc, c_calls, c_txs, c_i, c_lines>>

vars == <<mainVars, encVars, lineVars, convVars>>

\* what a step of main leaves alone
notMain == <<encVars, lineVars, convVars>>

\* what a step on a drawn transaction leaves alone
notEnc == <<mainVars, lineVars, convVars>>

\* what a call of build_line on drawn arguments leaves alone
notLine == <<mainVars, encVars, convVars>>

\* what a step of convert leaves alone
notConv == <<mainVars, encVars, lineVars>>

NoDate == [y |-> 0, m |-> 0, d |-> 0]

MainInit ==
  /\ csv \in CsvInputs
  /\ balance_mode \in {"opening", "closing"}
  /\ pc = "parse"
  /\ rowIdx = 1
  /\ started = FALSE
  /\ opening_balance = NoneDec
  /\ transactions = <<>>
  /\ start_date = NoDate
  /\ end_date = NoDate
  /\ total = NoneDec
  /\ start_balance = NoneDec
  /\ end_balance = NoneDec
  /\ lines = <<>>
  /\ seq = 0
  /\ error = ""
  /\ output = <<>>

(***************************************************************************)
(* parse_csv_transactions: one pass of the loop over the rows              *)
(***************************************************************************)

\* row + [""] * (6 - len(row))
PadRow(row) == row \o Rep(<<>>, 6 - Len(row))

\* " ".join(parts)
RECURSIVE JoinSpace(_)
JoinSpace(parts) ==
  IF parts = <<>> THEN <<>>
  ELSE IF Len(parts) = 1 THEN parts[1]
  ELSE parts[1] \o <<" ">> \o JoinSpace(Tail(parts))

\* [p for p in label_parts if p and p.strip()]
KeptParts(parts) == SelectSeq(parts, LAMBDA p : Strip(p) # <<>>)

\* what one row does to the parser: the kind of the row and what it yields
RowEffect(row0, isStarted) ==
  LET row == PadRow(row0)
      dated == DATE_RE(row[1])
      bal == parse_amount(row[6])
      amt == parse_amount(row[5])
      day == strptime(row[1])
      label == JoinSpace(KeptParts(<<row[2], row[3], row[4]>>))
  IN IF row0 = <<>> THEN [kind |-> "skip", err |-> ""]
     ELSE IF ~isStarted /\ ~dated THEN [kind |-> "skip", err |-> ""]
     ELSE IF ~dated /\ DATE_RE(row[4])
     THEN (IF bal.err # "" THEN [kind |-> "fail", err |-> bal.err]
           ELSE [kind |-> "balance", err |-> "", val |-> bal.val])
     ELSE IF ~dated THEN [kind |-> "skip", err |-> ""]
     ELSE IF amt.err # "" THEN [kind |-> "fail", err |-> amt.err]
     ELSE IF IsNone(amt.val) THEN [kind |-> "drop", err |-> ""]
     ELSE IF day.err # "" THEN [kind |-> "fail", err |-> day.err]
     ELSE [kind |-> "tx", err |-> "",
           val |-> [date |-> day.val, amount |-> amt.val, label |-> sanitize_label(label)]]

ReadRow ==
  /\ pc = "parse"
  /\ rowIdx <= Len(csv)
  /\ LET eff == RowEffect(csv[rowIdx], started)
     IN /\ started' = (started \/ (csv[rowIdx] # <<>> /\ DATE_RE(PadRow(csv[rowIdx])[1])))
        /\ opening_balance' = IF eff.kind = "balance" THEN eff.val ELSE opening_balance
        /\ transactions' = IF eff.kind = "tx" THEN Append(transactions, eff.val)
                           ELSE transactions
        /\ IF eff.kind = "fail"
           THEN pc' = "failed" /\ error' = eff.err /\ rowIdx' = rowIdx
           ELSE pc' = pc /\ error' = error /\ rowIdx' = rowIdx + 1
  /\ UNCHANGED <<csv, balance_mode, start_date, end_date, total, start_balance,
                 end_balance, lines, seq, output>>
  /\ UNCHANGED notMain

(***************************************************************************)
(* main                                                                    *)
(***************************************************************************)

\* the return of parse_csv_transactions, then main up to the balances
Assemble ==
  /\ pc = "parse"
  /\ rowIdx > Len(csv)
  /\ IF transactions = <<>>
     THEN /\ pc' = "failed"
          /\ error' = "NoTransactions"
          /\ UNCHANGED <<transactions, start_date, end_date, total, opening_balance,
                         start_balance, end_balance>>
     ELSE LET sorted == SortByDate(transactions)
              sum == SumAmounts(sorted)
              opening == IF IsNone(opening_balance) THEN DecZero2 ELSE opening_balance
              b == Balances(balance_mode, opening, sum)
          IN /\ transactions' = sorted
             /\ start_date' = sorted[1].date
             /\ end_date' = sorted[Len(sorted)].date
             /\ total' = sum
             /\ opening_balance' = opening
             /\ start_balance' = b.start
             /\ end_balance' = b.end
             /\ pc' = "opening"
             /\ error' = error
  /\ UNCHANGED <<csv, balance_mode, rowIdx, started, lines, seq, output>>
  /\ UNCHANGED notMain

\* lines.append(build_line("01", ...)); seq = 1
EmitOpening ==
  /\ pc = "opening"
  /\ LET r == BalanceLine(<<"0", "1">>, start_date, start_balance)
     IN IF r.err # ""
        THEN pc' = "failed" /\ error' = r.err /\ lines' = lines /\ seq' = seq
        ELSE pc' = "transactions" /\ error' = error /\ lines' = lines \o r.lines /\ seq' = 1
  /\ UNCHANGED <<csv, balance_mode, rowIdx, started, opening_balance, transactions,
                 start_date, end_date, total, start_balance, end_balance, output>>
  /\ UNCHANGED notMain

\* one pass of the loop: for tx in transactions
EmitTransaction ==
  /\ pc = "transactions"
  /\ seq <= Len(transactions)
  /\ LET r == TxLines(transactions[seq], seq)
     IN IF r.err # ""
        THEN pc' = "failed" /\ error' = r.err /\ lines' = lines /\ seq' = seq
        ELSE pc' = pc /\ error' = error /\ lines' = lines \o r.lines /\ seq' = seq + 1
  /\ UNCHANGED <<csv, balance_mode, rowIdx, started, opening_balance, transactions,
                 start_date, end_date, total, start_balance, end_balance, output>>
  /\ UNCHANGED notMain

\* lines.append(build_line("07", ...))
EmitClosing ==
  /\ pc = "transactions"
  /\ seq > Len(transactions)
  /\ LET r == BalanceLine(<<"0", "7">>, end_date, end_balance)
     IN IF r.err # ""
        THEN pc' = "failed" /\ error' = r.err /\ lines' = lines
        ELSE pc' = "write" /\ error' = error /\ lines' = lines \o r.lines
  /\ UNCHANGED <<csv, balance_mode, rowIdx, started, opening_balance, transactions,
                 start_date, end_date, total, start_balance, end_balance, seq, output>>
  /\ UNCHANGED notMain

\* the loop that writes the lines, with its length check
WriteFile ==
  /\ pc = "write"
  /\ IF \E i \in 1..Len(lines) : Len(lines[i]) # CFONB_WIDTH
     THEN pc' = "failed" /\ error' = "LineLength" /\ output' = output
     ELSE pc' = "done" /\ error' = error /\ output' = lines
  /\ UNCHANGED <<csv, balance_mode, rowIdx, started, opening_balance, transactions,
                 start_date, end_date, total, start_balance, end_balance, lines, seq>>
  /\ UNCHANGED notMain

MainNext == ReadRow \/ Assemble \/ EmitOpening \/ EmitTransaction \/ EmitClosing \/ WriteFile

\* no run of main
MainIdle ==
  /\ csv = <<>>
  /\ balance_mode = "opening"
  /\ pc = "idle"
  /\ rowIdx = 1
  /\ started = FALSE
  /\ opening_balance = NoneDec
  /\ transactions = <<>>
  /\ start_date = NoDate
  /\ end_date = NoDate
  /\ total = NoneDec
  /\ start_balance = NoneDec
  /\ end_balance = NoneDec
  /\ lines = <<>>
  /\ seq = 0
  /\ error = ""
  /\ output = <<>>

(***************************************************************************)
(* cfonb_encode_amount and one pass of main's loop, on drawn transactions  *)
(***************************************************************************)

\* the largest coefficient of a drawn amount
MaxCoef == 140

\* f"{n:d}" as digits
RECURSIVE NatCoef(_)
NatCoef(n) == IF n < 10 THEN <<n>> ELSE Append(NatCoef(n \div 10), n % 10)

\* the exponents of the drawn amounts: thousandths to units, and the magnitudes around
\* the 14 digits of the field
EncExps == {-3, -2, -1, 0, 10, 11, 12}

\* the lengths of the drawn labels: empty, the inline capacity, one more, and past a 05
LabelLens == {0, NAME_WIDTH, NAME_WIDTH + 1, LongLabelLen}

EncInputs ==
  {[date |-> [y |-> 2024, m |-> 1, d |-> 2], amount |-> Dec(neg, NatCoef(n), e),
    label |-> LongLabel(k)] :
     neg \in BOOLEAN, n \in 0..MaxCoef, e \in EncExps, k \in LabelLens}

NoResult == [err |-> "", val |-> <<>>]

NoLines == [err |-> "", lines |-> <<>>]

EncInit ==
  /\ e_pc = "call"
  /\ e_tx \in EncInputs
  /\ e_enc = NoResult
  /\ e_out = NoLines

EncIdle ==
  /\ e_pc = "idle"
  /\ e_tx = [date |-> NoDate, amount |-> NoneDec, label |-> <<>>]
  /\ e_enc = NoResult
  /\ e_out = NoLines

\* amount_str = cfonb_encode_amount(tx["amount"])
EncodeAmount ==
  /\ e_pc = "call"
  /\ e_enc' = cfonb_encode_amount(e_tx.amount, DECIMALS, AMOUNT_WIDTH)
  /\ e_pc' = "encoded"
  /\ UNCHANGED <<e_tx, e_out>>
  /\ UNCHANGED notEnc

\* the whole pass of the loop for the transaction, as the first of a statement
EmitOne ==
  /\ e_pc = "encoded"
  /\ e_out' = TxLines(e_tx, 1)
  /\ e_pc' = "emitted"
  /\ UNCHANGED <<e_tx, e_enc>>
  /\ UNCHANGED notEnc

EncNext == EncodeAmount \/ EmitOne

(***************************************************************************)
(* build_line on drawn arguments                                           *)
(***************************************************************************)

\* how far past its field the longest drawn value reaches
MaxExtra == 1

\* a value for a field of the given width: empty, exactly as wide, or too long
Sized(width, class) ==
  IF class = "empty" THEN <<>>
  ELSE IF class = "exact" THEN Rep("X", width)
  ELSE Rep("X", width + MaxExtra)

SizeClasses == {"empty", "exact", "long"}

RecTypes == {<<"0", "1">>, <<"0", "4">>, <<"0", "5">>, <<"0", "7">>}

LineInputs ==
  {[rec_type |-> r, bank_code |-> Sized(5, a), branch_code |-> Sized(5, a),
    account_number |-> Sized(11, a), date_ddmmyy |-> Sized(6, d),
    amount_str |-> Sized(AMOUNT_WIDTH, m), name |-> Sized(NAME_WIDTH, n),
    ref |-> Sized(7, f), comp_type |-> Sized(3, t), comp_info |-> Sized(COMP_WIDTH, c)] :
     r \in RecTypes, a \in SizeClasses, d \in SizeClasses, m \in SizeClasses,
     n \in SizeClasses, f \in SizeClasses, t \in SizeClasses, c \in SizeClasses}

LineInit ==
  /\ l_pc = "call"
  /\ l_args \in LineInputs
  /\ l_line = <<>>

LineIdle ==
  /\ l_pc = "idle"
  /\ l_args = [rec_type |-> <<>>]
  /\ l_line = <<>>

BuildLine ==
  /\ l_pc = "call"
  /\ l_line' = build_line(l_args.rec_type, l_args.bank_code, l_args.branch_code,
                          l_args.account_number, l_args.date_ddmmyy, l_args.amount_str,
                          l_args.name, l_args.ref, l_args.comp_type, l_args.comp_info)
  /\ l_pc' = "done"
  /\ UNCHANGED l_args
  /\ UNCHANGED notLine

(***************************************************************************)
(* csv_to_cfonb120.py: convert and its internal codes                      *)
(***************************************************************************)

\* the calls of convert one process makes
MaxCalls == 3

\* the transactions of one input file
MaxTx == 2

\* pad_left(s, length, fill)
pad_left(s, length, fill) == Take(rjust(s, length, fill), length)

\* pad_right(s, length, fill)
pad_right(s, length, fill) == Take(ljust(s, length, fill), length)

\* s[-n:]
LastN(s, n) == SubSeq(s, Max(1, Len(s) - n + 1), Len(s))

\* the value next_internal_code returns once _internal_seq is n
InternalCode(n) == pad_left(LastN(NatDigits(n), 4), 4, "0")

\* split_into_chunks(s, size): [s[i:i+size] for i in range(0, len(s), size)]
split_into_chunks(s, size) ==
  [k \in 1..((Len(s) + size - 1) \div size) |-> SubSeq(s, (k - 1) * size + 1, Min(k * size, Len(s)))]

\* the labels and references of the drawn transactions
ConvTxs ==
  {[label |-> LongLabel(k), reference |-> r] :
     k \in {0, COMP_WIDTH, COMP_WIDTH + 1}, r \in {<<>>, <<"R", "e", "f", "1">>}}

ConvInputs == UNION {[1..n -> ConvTxs] : n \in 0..MaxTx}

ConvInit ==
  /\ internal_seq = 0
  /\ c_pc = "idle"
  /\ c_calls = 0
  /\ c_txs = <<>>
  /\ c_i = 0
  /\ c_lines = <<>>

\* a 05 record of convert, as its fields
Rec05(code, qualifier, chunk) ==
  [rec |-> "05", code |-> pad_right(code, 4, " "),
   qualifier |-> pad_right(qualifier, 3, " "), info |-> pad_right(chunk, COMP_WIDTH, " ")]

\* convert up to its loop: read_csv_transactions, the header
ConvertStart ==
  /\ c_pc = "idle"
  /\ c_calls < MaxCalls
  /\ c_txs' \in ConvInputs
  /\ c_calls' = c_calls + 1
  /\ c_lines' = <<[rec |-> "01"]>>
  /\ c_i' = 1
  /\ c_pc' = "loop"
  /\ UNCHANGED internal_seq
  /\ UNCHANGED notConv

\* one pass of the loop of convert: next_internal_code(), build_04_line (whose
\* tx.get('internal_code', next_internal_code()) calls next_internal_code once more to
\* build the default it does not use), the 05 records of the label and of the reference
ConvertTx ==
  /\ c_pc = "loop"
  /\ c_i <= Len(c_txs)
  /\ LET tx == c_txs[c_i]
         internal_code == InternalCode(internal_seq + 1)
         line04 == [rec |-> "04", code |-> pad_right(internal_code, 4, " "),
                    label |-> pad_right(tx.label, NAME_WIDTH, " ")]
         label_chunks == split_into_chunks(tx.label, COMP_WIDTH)
         lib == [k \in 1..Len(label_chunks) |->
                   Rec05(internal_code, <<"L", "I", "B">>, label_chunks[k])]
         ref_chunks == split_into_chunks(tx.reference, COMP_WIDTH)
         refs == [k \in 1..Len(ref_chunks) |->
                    Rec05(internal_code, <<"R", "E", "F">>, ref_chunks[k])]
     IN /\ internal_seq' = internal_seq + 2
        /\ c_lines' = c_lines \o <<line04>> \o lib \o refs
  /\ c_i' = c_i + 1
  /\ UNCHANGED <<c_pc, c_calls, c_txs>>
  /\ UNCHANGED notConv

\* the footer, and the file written
ConvertFinish ==
  /\ c_pc = "loop"
  /\ c_i > Len(c_txs)
  /\ c_lines' = Append(c_lines, [rec |-> "07"])
  /\ c_pc' = "idle"
  /\ UNCHANGED <<internal_seq, c_calls, c_txs, c_i>>
  /\ UNCHANGED notConv

ConvIdle ==
  /\ internal_seq = 0
  /\ c_pc = "off"
  /\ c_calls = 0
  /\ c_txs = <<>>
  /\ c_i = 0
  /\ c_lines = <<>>

ConvNext == ConvertStart \/ ConvertTx \/ ConvertFinish

(***************************************************************************)
(* Specifications                                                          *)
(***************************************************************************)

\* a run of main of csv_to_cfonb120final.py on a drawn input file
Init == MainInit /\ EncIdle /\ LineIdle /\ ConvIdle

Next == MainNext

Spec == Init /\ [][Next]_vars

\* cfonb_encode_amount and one pass of the loop of main on a drawn transaction
InitEncode == MainIdle /\ EncInit /\ LineIdle /\ ConvIdle

NextEncode == EncNext

SpecEncode == InitEncode /\ [][NextEncode]_vars

\* build_line, called on drawn arguments or by a run of main
InitWidth ==
  \/ MainIdle /\ LineInit /\ EncIdle /\ ConvIdle
  \/ MainInit /\ LineIdle /\ EncIdle /\ ConvIdle

NextWidth == BuildLine \/ MainNext

SpecWidth == InitWidth /\ [][NextWidth]_vars

\* the calls of convert of csv_to_cfonb120.py one process makes
InitConvert == MainIdle /\ EncIdle /\ LineIdle /\ ConvInit

NextConvert == ConvNext

SpecConvert == InitConvert /\ [][NextConvert]_vars


(***************************************************************************)
(* Properties                                                              *)
(***************************************************************************)

\* C1: build_line returns exactly 120 characters for every record type and for field
\* values of any length, so every line main builds has length 120 and the length
\* check before writing never fails.
C1_Width ==
  /\ l_pc = "done" => Len(l_line) = CFONB_WIDTH
  /\ \A i \in 1..Len(lines) : Len(lines[i]) = CFONB_WIDTH
  /\ error # "LineLength"

\* C1 witness: a 05 record built from an over-long comp_info and an over-long amount.
C1_Witness ==
  /\ l_pc = "done"
  /\ l_args.rec_type = <<"0", "5">>
  /\ Len(l_args.comp_info) > COMP_WIDTH
  /\ Len(l_args.amount_str) > AMOUNT_WIDTH
  /\ l_args.bank_code = <<>>

\* the (digit, sign) pairs a last character stands for, by inverse lookup in both tables
OverpunchDecode(ch) ==
  {p \in (DOMAIN CREDIT_MAP) \X {"credit", "debit"} :
     (IF p[2] = "credit" THEN CREDIT_MAP[p[1]] ELSE DEBIT_MAP[p[1]]) = ch}

\* the digits of the scaled, rounded magnitude, left-padded with zeros to the width
PaddedMagnitude(amount) ==
  rjust(IntDigits(Scaled(amount, DECIMALS).val.dig), AMOUNT_WIDTH, "0")

\* C2: the last character of an encoded amount decodes, by inverse lookup across both
\* tables, to exactly one (digit, sign) pair: the last digit of the magnitude and the
\* sign of the amount (credit when it is >= 0, debit when it is negative); the 20
\* substitution characters are pairwise distinct.
C2_OverpunchRoundTrip ==
  /\ (e_pc # "call" /\ e_pc # "idle" /\ e_enc.err = "") =>
        OverpunchDecode(e_enc.val[Len(e_enc.val)]) =
          {<<PaddedMagnitude(e_tx.amount)[AMOUNT_WIDTH],
             IF DecGeZero(e_tx.amount) THEN "credit" ELSE "debit">>}
  /\ Cardinality({CREDIT_MAP[d] : d \in DOMAIN CREDIT_MAP}
                    \cup {DEBIT_MAP[d] : d \in DOMAIN DEBIT_MAP}) = 20

\* C2 witness: a negative amount whose last digit is 1 has been encoded as J.
C2_Witness ==
  /\ e_pc = "encoded"
  /\ e_enc.err = ""
  /\ e_tx.amount.neg
  /\ e_enc.val[Len(e_enc.val)] = "J"

\* the digits a 14-character amount field carries, its overpunch undone
FieldDigits(val) ==
  [i \in 1..Len(val) |->
     IF i < Len(val) THEN val[i]
     ELSE (CHOOSE p \in (DOMAIN CREDIT_MAP) \X {"credit", "debit"} :
             p \in OverpunchDecode(val[i]))[1]]

\* the digit characters of s without its leading zeros
RECURSIVE StripZeroChars(_)
StripZeroChars(s) == IF Len(s) > 1 /\ Head(s) = "0" THEN StripZeroChars(Tail(s)) ELSE s

\* C5: cfonb_encode_amount raises exactly when the scaled, rounded magnitude has more
\* digits than the width; otherwise it returns width characters that carry every
\* digit of the magnitude, also once placed in the 04 record; and the pass over a
\* transaction raises only when its amount does, whatever the length of its label.
C5_NoSilentAmountTruncation ==
  LET magnitude == IntDigits(Scaled(e_tx.amount, DECIMALS).val.dig)
  IN /\ (e_pc = "encoded" \/ e_pc = "emitted") =>
          /\ (e_enc.err # "") = (Len(magnitude) > AMOUNT_WIDTH)
          /\ e_enc.err = "" =>
               /\ Len(e_enc.val) = AMOUNT_WIDTH
               /\ StripZeroChars(FieldDigits(e_enc.val)) = magnitude
     /\ e_pc = "emitted" =>
          /\ (e_out.err # "") = (e_enc.err # "")
          /\ e_out.err = "" => Field(e_out.lines[1], 90, 104) = e_enc.val

\* C5 witness: a transaction whose magnitude fills the 14 digits and whose label is
\* past the inline capacity has been emitted.
C5_Witness ==
  /\ e_pc = "emitted"
  /\ e_out.err = ""
  /\ Len(e_tx.label) > NAME_WIDTH
  /\ Len(IntDigits(Scaled(e_tx.amount, DECIMALS).val.dig)) = AMOUNT_WIDTH

\* abs(amount) * 10 ** decimals rounded to an integer with ties rounded up
HalfUpMagnitude(amount, decimals) ==
  LET shift == amount.exp + decimals
      d == amount.dig
      k == -shift
      full == Rep(0, Max(0, k + 1 - Len(d))) \o d
      keep == SubSeq(full, 1, Len(full) - k)
      rest == SubSeq(full, Len(full) - k + 1, Len(full))
  IN IF shift >= 0 THEN (IF d = <<0>> THEN <<0>> ELSE d \o Rep(0, shift))
     ELSE StripZeros(Bump(keep, rest[1] >= 5))

\* C10: the magnitude cfonb_encode_amount encodes is abs(amount) * 10^decimals rounded
\* to the nearest integer, a tie rounded up (0.125 gives 13, 0.135 gives 14).
C10_RoundHalfUp ==
  (e_pc = "encoded" /\ e_enc.err = "") =>
     StripZeroChars(FieldDigits(e_enc.val)) = IntDigits(HalfUpMagnitude(e_tx.amount, DECIMALS))

\* main has computed the balances
Assembled == pc \in {"opening", "transactions", "write", "done"}

\* the sum of the amounts, without rounding
RECURSIVE ExactSum(_)
ExactSum(s) ==
  IF s = <<>> THEN DecInt0
  ELSE DecAddExact(ExactSum(SubSeq(s, 1, Len(s) - 1)), s[Len(s)].amount)

\* x and y are the same number
DecEq(x, y) == DecIsZero(DecAddExact(x, DecNeg(y)))

\* C3: the balance passed to the 07 record is exactly the balance passed to the 01
\* record plus the sum of all transaction amounts, in either balance mode.
C3_BalanceClosure ==
  Assembled => DecEq(end_balance, DecAddExact(start_balance, ExactSum(transactions)))

\* the place in the output of the 04 record of the k-th transaction
Line04(out, k) ==
  LET at == {i \in 1..Len(out) : Field(out[i], 0, 2) = <<"0", "4">>}
  IN CHOOSE i \in at : Cardinality({j \in at : j <= i}) = k

\* the texts of the 05 records that follow place i, in order
RECURSIVE Continuations(_, _)
Continuations(out, i) ==
  IF i + 1 <= Len(out) /\ Field(out[i + 1], 0, 2) = <<"0", "5">>
  THEN Field(out[i + 1], 48, 118) \o Continuations(out, i + 1)
  ELSE <<>>

\* the inline label of the k-th transaction followed by its continuation texts
Reconstructed(out, k) ==
  Field(out[Line04(out, k)], 48, 79) \o Continuations(out, Line04(out, k))

\* C4: the inline label of a transaction's 04 record followed by the texts of its 05
\* records reproduces the sanitized label (up to the padding of the last field).
C4_LabelReconstruction ==
  pc = "done" =>
     \A k \in 1..Len(transactions) : RStrip(Reconstructed(output, k)) = transactions[k].label

\* the rows among the first n whose first column is a date
DatedRows(n) == {i \in 1..n : csv[i] # <<>> /\ DATE_RE(PadRow(csv[i])[1])}

\* C6: every row read whose first column is a date has become one transaction, unless
\* the conversion failed.
C6_NoSilentDrop ==
  pc = "parse" => Len(transactions) = Cardinality(DatedRows(rowIdx - 1))

\* an account-summary row: no date in column 0, a date in column 3
IsSummaryRow(row) == row # <<>> /\ ~DATE_RE(PadRow(row)[1]) /\ DATE_RE(PadRow(row)[4])

\* C7: an account-summary row whose amount cell cannot be parsed never makes
\* parse_csv_transactions fail.
C7_SummaryTolerated ==
  ~(pc = "failed" /\ rowIdx <= Len(csv) /\ IsSummaryRow(csv[rowIdx]))

\* the transactions of the input in input order
InputTxs ==
  LET effs == [i \in 1..Len(csv) |-> RowEffect(csv[i], TRUE)]
      txs == SelectSeq(effs, LAMBDA e : e.kind = "tx")
  IN [i \in 1..Len(txs) |-> txs[i].val]

\* s is in ascending date order and keeps, date by date, the order of t
StableSortOf(s, t) ==
  /\ Len(s) = Len(t)
  /\ \A i \in 1..Len(s) : \A j \in i..Len(s) : ~DateLt(s[j].date, s[i].date)
  /\ \A x \in {t[i].date : i \in 1..Len(t)} :
       SelectSeq(s, LAMBDA u : u.date = x) = SelectSeq(t, LAMBDA u : u.date = x)

\* a date of s that none is earlier than
EarliestDate(s) ==
  CHOOSE x \in {s[i].date : i \in 1..Len(s)} : \A i \in 1..Len(s) : ~DateLt(s[i].date, x)

\* a date of s that none is later than
LatestDate(s) ==
  CHOOSE x \in {s[i].date : i \in 1..Len(s)} : \A i \in 1..Len(s) : ~DateLt(x, s[i].date)

\* the 04 record at place i of the lines is the one of the k-th transaction tx
Is04Of(line, k, tx) ==
  /\ Field(line, 34, 40) = strftime(tx.date)
  /\ Field(line, 81, 88) = rjust(NatDigits(k), 7, "0")
  /\ Field(line, 48, 79) = ljust(Take(tx.label, NAME_WIDTH), NAME_WIDTH, " ")

\* C8: the 04 records are emitted in ascending date order, transactions of one date in
\* input order; the 01 record carries the earliest date and the 07 record the latest.
C8_DateOrdering ==
  Assembled =>
    LET input == InputTxs
        at == SelectSeq([i \in 1..Len(lines) |-> i],
                        LAMBDA i : Field(lines[i], 0, 2) = <<"0", "4">>)
    IN /\ StableSortOf(transactions, input)
       /\ lines # <<>> =>
            /\ Field(lines[1], 0, 2) = <<"0", "1">>
            /\ Field(lines[1], 34, 40) = strftime(EarliestDate(input))
       /\ Len(at) = (IF lines = <<>> THEN 0 ELSE seq - 1)
       /\ \A k \in 1..Len(at) : Is04Of(lines[at[k]], k, transactions[k])
       /\ pc \in {"write", "done"} =>
            /\ Len(at) = Len(transactions)
            /\ Field(lines[Len(lines)], 0, 2) = <<"0", "7">>
            /\ Field(lines[Len(lines)], 34, 40) = strftime(LatestDate(input))

\* C8 witness: a statement written from an input out of date order with two different
\* transactions of one date.
C8_Witness ==
  /\ pc = "done"
  /\ \E i \in 1..Len(InputTxs) : \E j \in i..Len(InputTxs) :
       DateLt(InputTxs[j].date, InputTxs[i].date)
  /\ \E i \in 1..Len(transactions) : \E j \in 1..Len(transactions) :
       /\ i < j
       /\ transactions[i].date = transactions[j].date
       /\ transactions[i] # transactions[j]
  /\ transactions # InputTxs

\* the 04 records of the current call of convert, in order
Codes04 == SelectSeq(c_lines, LAMBDA r : r.rec = "04")

\* C9: within each call of convert the k-th 04 record carries internal code k, zero
\* padded to 4 characters, whatever earlier calls processed, and the 05 records of a
\* transaction carry the code of its 04 record.
C9_PerRunCodes ==
  /\ \A k \in 1..Len(Codes04) : Codes04[k].code = rjust(NatDigits(k), 4, "0")
  /\ \A i \in 1..Len(c_lines) :
       c_lines[i].rec = "05" =>
         LET before == {j \in 1..i : c_lines[j].rec = "04"}
             own == CHOOSE j \in before : \A h \in before : h <= j
         IN c_lines[i].code = c_lines[own].code

=============================================================================
